---- MODULE Spec2Model ----
(***************************************************************************)
(* Model of approval_bot.py: a Telegram bot that gates membership of two   *)
(* paid channels on the subscriptions table of a Supabase registry.        *)
(*                                                                         *)
(* Handlers are coroutines.  A handler runs without interruption up to its *)
(* next awaited platform call, so each action below is either the         *)
(* dispatch of an update (the synchronous prefix of its handler, registry  *)
(* query included, which is a blocking call) or the completion of one      *)
(* awaited platform call together with the synchronous code after it.     *)
(***************************************************************************)
EXTENDS Integers, Sequences, FiniteSets, TLC

\* ------------------------------------------------------------------ bounds
\* Number of updates the application takes from its queue in one run.
MaxUpdates == 2
\* Largest number of rows of the subscriptions table.
MaxRows == 1

\* ------------------------------------------------------ configuration
CHANNEL_49_299 == "chat_49_299"
CHANNEL_79_399 == "chat_79_399"
\* A chat the bot is a member of but does not manage.
OtherChat == "chat_other"
\* The private chat with a user (send_message(chat_id=user_id)).
PrivateChat == "private"

ManagedChannels == <<CHANNEL_49_299, CHANNEL_79_399>>
Chats == {CHANNEL_49_299, CHANNEL_79_399, OtherChat}

\* Variant: the amount 299 belongs to the second channel.
PAYMENT_CHANNELS_299_moved ==
    [k \in {"49", "299", "79", "399"} |->
        IF k = "49" THEN CHANNEL_49_299 ELSE CHANNEL_79_399]

PAYMENT_CHANNELS ==
    [k \in {"49", "299", "79", "399"} |->
        IF k \in {"49", "299"} THEN CHANNEL_49_299 ELSE CHANNEL_79_399]

\* Python None for the amount and the channel of a lookup result.
None == "None"

\* ------------------------------------------------------------ strings
\* A handle is a sequence of characters; the empty sequence is a missing
\* username (None or "": both are falsy in `user.username or ...`).
NoName == <<>>

Lower(c) == IF c = "A" THEN "a" ELSE IF c = "B" THEN "b" ELSE c

\* One pattern character of an ILIKE pattern against one character:
\* case-insensitive, with "_" matching any single character.
CharMatch(p, c) == p = "_" \/ Lower(p) = Lower(c)

\* telegram_username ILIKE '%' || pattern || '%'
ILike(s, pattern) ==
    \E i \in 0..(Len(s) - Len(pattern)) :
        \A j \in 1..Len(pattern) : CharMatch(pattern[j], s[i + j])

\* f"user_{user_id}"
DefaultName(user_id) == <<"u", "s", "e", "r", "_", ToString(user_id)>>

\* user.username or f"user_{user_id}"
UsernameOf(user) ==
    IF user.username # NoName THEN user.username ELSE DefaultName(user.id)

\* context.args[0].replace('@', '')
StripAt(arg) == SelectSeq(arg, LAMBDA c : c # "@")

\* ----------------------------------------------------------- registry
\* A row of the subscriptions table.  telegram_id is the numeric identity
\* of the subscriber (0 when the row holds none); no query of the bot
\* selects it or filters on it.
Row(telegram_id, telegram_username, amount_paid, payment_status, is_active) ==
    [telegram_id |-> telegram_id, telegram_username |-> telegram_username,
     amount_paid |-> amount_paid, payment_status |-> payment_status,
     is_active |-> is_active]

\* Variant: a manual approval is recorded with the amount of the first
\* tier.
ManualRowOfTier(username) == Row(0, username, 49, "completed", TRUE)

\* The row manual_approve inserts.
ManualRow(username) == Row(0, username, 0, "completed", TRUE)

\* Rows of the subscriptions table the model draws from.
Rows ==
    { Row(1, <<"a">>, 49, "completed", TRUE),
      Row(2, <<"a", "b">>, 79, "completed", TRUE),
      Row(0, <<"A">>, 999, "completed", TRUE),
      Row(1, <<"a">>, 299, "pending", TRUE) }

RECURSIVE SeqsUpTo(_, _)
SeqsUpTo(S, n) ==
    IF n = 0 THEN {<<>>}
    ELSE LET shorter == SeqsUpTo(S, n - 1)
         IN  shorter \cup {Append(q, x) : q \in shorter, x \in S}

\* The rows the query of check_user_subscription returns, in table order.
QueryData(reg, username) ==
    SelectSeq(reg, LAMBDA row :
        /\ ILike(row.telegram_username, username)
        /\ row.payment_status = "completed"
        /\ row.is_active)

\* check_user_subscription: the triple (has_subscription, amount, channel).
\* `client` is whether supabase_client is set, `raises` whether the query
\* raises (network error, timeout).
NoSubscription == [has |-> FALSE, amount |-> None, channel |-> None]

\* Variant: an amount that is no key of the table falls back to the first
\* channel (PAYMENT_CHANNELS.get(amount, CHANNEL_49_299)).
check_user_subscription_default(reg, client, raises, user_id, username) ==
    IF ~client
    THEN [has |-> TRUE, amount |-> "49", channel |-> CHANNEL_49_299]
    ELSE IF raises THEN NoSubscription
    ELSE LET data == QueryData(reg, username)
         IN  IF data # <<>>
             THEN LET amount == ToString(data[1].amount_paid)
                  IN  [has |-> TRUE, amount |-> amount,
                       channel |-> IF amount \in DOMAIN PAYMENT_CHANNELS
                                   THEN PAYMENT_CHANNELS[amount]
                                   ELSE CHANNEL_49_299]
             ELSE NoSubscription

check_user_subscription(reg, client, raises, user_id, username) ==
    IF ~client
    THEN [has |-> TRUE, amount |-> "49", channel |-> CHANNEL_49_299]
    ELSE IF raises THEN NoSubscription
    ELSE LET data == QueryData(reg, username)
         IN  IF data # <<>>
             THEN LET amount == ToString(data[1].amount_paid)
                  IN  IF amount \in DOMAIN PAYMENT_CHANNELS
                      THEN [has |-> TRUE, amount |-> amount,
                            channel |-> PAYMENT_CHANNELS[amount]]
                      ELSE [has |-> FALSE, amount |-> amount, channel |-> None]
             ELSE NoSubscription

\* Which outcome of the lookup a call of check_user_subscription took:
\* "Unavailable" without a client or when the query raises, "Inactive"
\* when the query returns no row, "Unknown" when the amount of the first
\* row is not a key of PAYMENT_CHANNELS, "Active" otherwise.
LookupResult(reg, client, raises, username) ==
    IF ~client \/ raises THEN "Unavailable"
    ELSE LET data == QueryData(reg, username)
         IN  IF data = <<>> THEN "Inactive"
             ELSE IF ToString(data[1].amount_paid) \in DOMAIN PAYMENT_CHANNELS
                  THEN "Active" ELSE "Unknown"

\* No call of check_user_subscription was made.
NoLookup == "none"

\* ------------------------------------------------------------ updates
NotPresentStatuses == {"left", "kicked", "restricted", "banned"}
PresentStatuses == {"member", "administrator", "creator"}
Statuses == NotPresentStatuses \cup PresentStatuses

\* Telegram users: a numeric id and an optional username.
NoUser == [id |-> 0, username |-> NoName]
Users == { [id |-> 1, username |-> <<"a">>],
           [id |-> 2, username |-> NoName] }
UserIds == {u.id : u \in Users}

\* An update as the handlers read it.  kind selects the handler; chat is
\* chat_member.chat.id or message.chat_id; user is new_chat_member.user,
\* reply_to_message.from_user (NoUser without a reply) or message.from_user;
\* arg is context.args[0] (NoName without arguments); admin is whether the
\* sender of a command is administrator or owner of a managed channel.
Update(kind, chat, user, old, new, arg, admin) ==
    [kind |-> kind, chat |-> chat, user |-> user, old |-> old, new |-> new,
     arg |-> arg, admin |-> admin]

OldStatuses == {"left", "member"}
NewStatuses == {"member", "left"}
Args == {NoName, <<"@", "a">>, <<"a", "b">>}

ChatMemberUpdates ==
    {Update("chat_member", c, u, o, n, NoName, FALSE) :
        c \in Chats, u \in Users, o \in OldStatuses, n \in NewStatuses}
ApproveUpdates ==
    {Update("approve", c, u, "-", "-", NoName, a) :
        c \in {CHANNEL_49_299, OtherChat}, u \in Users \cup {NoUser}, a \in BOOLEAN}
InviteUpdates ==
    {Update("invite", PrivateChat, NoUser, "-", "-", g, a) :
        g \in Args, a \in {FALSE}}
CheckUpdates ==
    {Update("check", PrivateChat, u, "-", "-", NoName, FALSE) : u \in Users}
UnbanUpdates ==
    {Update("unban", PrivateChat, NoUser, "-", "-", g, a) :
        g \in Args, a \in {FALSE}}
TestUpdates == {Update("test", PrivateChat, NoUser, "-", "-", NoName, FALSE)}

\* -------------------------------------------------------------- state
VARIABLES
    registry,         \* rows of the subscriptions table, in table order
    supabase_client,  \* TRUE iff create_client succeeded at import
    banned,           \* platform: the banned <<chat, user id>> pairs
    invites,          \* platform: chats an invite link was created for
    running,          \* handler coroutines suspended at a platform call
    last,             \* the finished handler of the latest update
    taken             \* number of updates taken from the update queue

vars == <<registry, supabase_client, banned, invites, running, last, taken>>

\* A handler coroutine: the update it handles, the order in which the
\* update was received, the platform call it is suspended at, the lookup
\* outcome and result it holds and the platform calls it has made so far.  redo and
\* banned0 record, at dispatch, whether the update repeats the one handled
\* just before with the same lookup result, and the ban state at that point.
Task(seq, upd, pc, lookup, res, calls, redo, banned0) ==
    [seq |-> seq, upd |-> upd, pc |-> pc, lookup |-> lookup, res |-> res,
     calls |-> calls, redo |-> redo, banned0 |-> banned0]

NoTask ==
    Task(0, Update("none", PrivateChat, NoUser, "-", "-", NoName, FALSE),
         "none", NoLookup, NoSubscription, <<>>, "no", {})

\* A platform call and its outcome.
Call(op, chat, user, text, detail, ok) ==
    [op |-> op, chat |-> chat, user |-> user, text |-> text,
     detail |-> detail, ok |-> ok]

\* ------------------------------------------------- handle_chat_member
\* chat_id in [CHANNEL_49_299, CHANNEL_79_399]
\* Variant: every chat counts as managed.
IsManagedAny(chat_id) == TRUE

IsManaged(chat_id) == \E i \in DOMAIN ManagedChannels : ManagedChannels[i] = chat_id

\* Variant: the previous status is not looked at.
IsJoiningNow(old_status, new_status) ==
    new_status \in {"member", "administrator", "creator"}

\* "User is joining or returning"
IsJoining(old_status, new_status) ==
    /\ old_status \in {"left", "kicked", "restricted", "banned"}
    /\ new_status \in {"member", "administrator", "creator"}

\* Variant: the channel comparison inverted.
JoinBranchFlipped(chat_id, res) ==
    IF res.has
    THEN IF chat_id # res.channel THEN "admit_unban" ELSE "redirect_ban"
    ELSE "deny_ban"

\* Variant: without a subscription the notice is sent and the ban left out.
JoinBranchNoticeFirst(chat_id, res) ==
    IF res.has
    THEN IF chat_id = res.channel THEN "admit_unban" ELSE "redirect_ban"
    ELSE "deny_notify"

\* The branch taken on the lookup result: the first platform call awaited.
JoinBranch(chat_id, res) ==
    IF res.has
    THEN IF chat_id = res.channel THEN "admit_unban" ELSE "redirect_ban"
    ELSE "deny_ban"

\* Variant: the two names exchanged.
CorrectChannelNameSwapped(correct_channel_id) ==
    IF correct_channel_id = CHANNEL_49_299 THEN "79/399 channel" ELSE "49/299 channel"

\* correct_channel_name of the wrong-channel notice
CorrectChannelName(correct_channel_id) ==
    IF correct_channel_id = CHANNEL_49_299 THEN "49/299 channel" ELSE "79/399 channel"

\* channel_name of the status reply of check_subscription
ChannelName(channel_id) ==
    IF channel_id = CHANNEL_49_299 THEN "49/299" ELSE "79/399"

\* ------------------------------------------------------ continuations
\* Where a handler goes after the platform call it awaited at pc returned
\* (ok) or raised (~ok): the try/except structure of the handlers.
ChatMemberPcs ==
    {"admit_unban", "admit_welcome", "redirect_ban", "redirect_notify",
     "deny_ban", "deny_notify"}

\* Variant: a notice that cannot be delivered takes the ban back.
ChatMemberNextRollback(pc, ok) ==
    CASE pc = "admit_unban"     -> "admit_welcome"
      [] pc = "admit_welcome"   -> "done"
      [] pc = "redirect_ban"    -> IF ok THEN "redirect_notify" ELSE "done"
      [] pc = "redirect_notify" -> IF ok THEN "done" ELSE "admit_unban"
      [] pc = "deny_ban"        -> IF ok THEN "deny_notify" ELSE "done"
      [] pc = "deny_notify"     -> IF ok THEN "done" ELSE "admit_unban"

\* Variant: the inner try around unban_chat_member left out, so that its
\* failure reaches the outer except and the welcome is skipped.
ChatMemberNextUnbanAborts(pc, ok) ==
    CASE pc = "admit_unban"     -> IF ok THEN "admit_welcome" ELSE "done"
      [] pc = "admit_welcome"   -> "done"
      [] pc = "redirect_ban"    -> IF ok THEN "redirect_notify" ELSE "done"
      [] pc = "redirect_notify" -> "done"
      [] pc = "deny_ban"        -> IF ok THEN "deny_notify" ELSE "done"
      [] pc = "deny_notify"     -> "done"

\* Variant: a ban that raised on the wrong-channel branch is tried again
\* on the no-subscription branch.
ChatMemberNextBanAgain(pc, ok) ==
    CASE pc = "admit_unban"     -> "admit_welcome"
      [] pc = "admit_welcome"   -> "done"
      [] pc = "redirect_ban"    -> IF ok THEN "redirect_notify" ELSE "deny_ban"
      [] pc = "redirect_notify" -> "done"
      [] pc = "deny_ban"        -> IF ok THEN "deny_notify" ELSE "done"
      [] pc = "deny_notify"     -> "done"

\* handle_chat_member after each of its platform calls.
ChatMemberNext(pc, ok) ==
    CASE pc = "admit_unban"     -> "admit_welcome"
      [] pc = "admit_welcome"   -> "done"
      [] pc = "redirect_ban"    -> IF ok THEN "redirect_notify" ELSE "done"
      [] pc = "redirect_notify" -> "done"
      [] pc = "deny_ban"        -> IF ok THEN "deny_notify" ELSE "done"
      [] pc = "deny_notify"     -> "done"

\* The command handlers after each of their platform calls.  A reply that
\* raises inside the outer except leaves the handler as an exception
\* ("raised"), which the application hands to error_handler.
CommandNext(pc, ok) ==
    CASE pc = "approve_usage"   -> IF ok THEN "done" ELSE "approve_error"
      [] pc = "approve_unban"   -> "approve_reply"
      [] pc = "approve_reply"   -> IF ok THEN "done" ELSE "approve_error"
      [] pc = "approve_error"   -> IF ok THEN "done" ELSE "raised"
      [] pc = "invite_usage"    -> IF ok THEN "done" ELSE "invite_error"
      [] pc = "invite_unban"    -> "invite_create"
      [] pc = "invite_create"   -> IF ok THEN "invite_reply" ELSE "invite_failed"
      [] pc = "invite_reply"    -> IF ok THEN "done" ELSE "invite_failed"
      [] pc = "invite_failed"   -> IF ok THEN "done" ELSE "invite_error"
      [] pc = "invite_nosub"    -> IF ok THEN "done" ELSE "invite_error"
      [] pc = "invite_error"    -> IF ok THEN "done" ELSE "raised"
      [] pc = "check_reply"     -> IF ok THEN "done" ELSE "check_error"
      [] pc = "check_error"     -> IF ok THEN "done" ELSE "raised"
      [] pc = "unban_usage"     -> IF ok THEN "done" ELSE "unban_error"
      [] pc = "unban_reply"     -> IF ok THEN "done" ELSE "unban_error"
      [] pc = "unban_error"     -> IF ok THEN "done" ELSE "raised"
      [] pc = "test_reply"      -> "done"

\* A handler that has returned, or that an exception has left.
Finished == {"done", "raised"}

NextPc(pc, ok) ==
    IF pc \in ChatMemberPcs THEN ChatMemberNext(pc, ok) ELSE CommandNext(pc, ok)

UnbanPcs == {"admit_unban", "approve_unban", "invite_unban"}
BanPcs == {"redirect_ban", "deny_ban"}
SendPcs == {"admit_welcome", "redirect_notify", "deny_notify"}
CreatePcs == {"invite_create"}
ReplyPcs ==
    {"approve_usage", "approve_reply", "approve_error", "invite_usage",
     "invite_reply", "invite_failed", "invite_nosub", "invite_error",
     "check_reply", "check_error", "unban_usage", "unban_reply",
     "unban_error", "test_reply"}

\* The platform call a handler awaits at t.pc, with its outcome.
Issued(t, ok) ==
    LET chat_id == t.upd.chat
        user_id == t.upd.user.id
    IN  CASE t.pc = "admit_unban" ->
               Call("unban_chat_member", chat_id, user_id, "", "", ok)
          [] t.pc = "admit_welcome" ->
               Call("send_message", chat_id, 0, "welcome", t.res.amount, ok)
          [] t.pc \in BanPcs ->
               Call("ban_chat_member", chat_id, user_id, "", "", ok)
          [] t.pc = "redirect_notify" ->
               Call("send_message", PrivateChat, user_id, "wrong_channel",
                    CorrectChannelName(t.res.channel), ok)
          [] t.pc = "deny_notify" ->
               Call("send_message", PrivateChat, user_id, "access_denied", "", ok)
          [] t.pc = "approve_unban" ->
               Call("unban_chat_member", chat_id, user_id, "", "", ok)
          [] t.pc = "invite_unban" ->
               Call("unban_chat_member", t.res.channel, 0, "", "", ok)
          [] t.pc = "invite_create" ->
               Call("create_chat_invite_link", t.res.channel, 0, "", "", ok)
          [] t.pc = "invite_reply" ->
               Call("reply_text", chat_id, 0, t.pc, t.res.amount, ok)
          [] t.pc = "check_reply" ->
               Call("reply_text", chat_id, 0,
                    IF t.res.has THEN "check_active" ELSE "check_none",
                    IF t.res.has THEN ChannelName(t.res.channel) ELSE "", ok)
          [] t.pc = "unban_reply" ->
               Call("reply_text", chat_id, 0, "unban_attempted",
                    "The user should now be able to join", ok)
          [] OTHER ->
               Call("reply_text", chat_id, 0, t.pc, "", ok)

\* ----------------------------------------------------------- platform
\* Effect of a platform call on the ban list: ban_chat_member adds the
\* pair, unban_chat_member(only_if_banned=True) removes it, a call that
\* raises changes nothing.
BanEffect(b, call) ==
    IF ~call.ok THEN b
    ELSE IF call.op = "ban_chat_member" THEN b \cup {<<call.chat, call.user>>}
    ELSE IF call.op = "unban_chat_member" THEN b \ {<<call.chat, call.user>>}
    ELSE b

InviteEffect(inv, call) ==
    IF call.ok /\ call.op = "create_chat_invite_link"
    THEN inv \cup {call.chat} ELSE inv

\* ----------------------------------------------------------- dispatch
\* Variant: updates handled concurrently (concurrent_updates(True)).
CanDispatchConcurrent == TRUE

\* Some platform call of t raised, or an exception left t.
Failed(t) ==
    \/ t.pc = "raised"
    \/ \E i \in DOMAIN t.calls : ~t.calls[i].ok

\* Variant: the application stops taking updates once a handler has
\* failed.
CanDispatchUntilFailure == running = {} /\ ~Failed(last)

\* Application.builder().token(BOT_TOKEN).build() leaves concurrent_updates
\* off: the application awaits the handler of one update before it takes
\* the next update from the queue.
CanDispatch == running = {}

\* Some ban or unban call of t raised.
PrimaryFailed(t) ==
    \E i \in DOMAIN t.calls :
        /\ t.calls[i].op \in {"ban_chat_member", "unban_chat_member"}
        /\ ~t.calls[i].ok

\* Whether update u with lookup (lookup, res) repeats the update handled
\* just before it ("same" after a failed ban or unban, "sameok"
\* otherwise), or is a membership update under evaluation that follows
\* the /approve of its own identity, whose lookup found no valid
\* subscription and whose row is the last of the table ("afterapprove"),
\* or a failed handler of another identity ("afterfail").
Redo(u, lookup, res) ==
    IF running = {} /\ last.upd = u /\ last.lookup = lookup /\ last.res = res
    THEN IF PrimaryFailed(last) THEN "same" ELSE "sameok"
    ELSE IF /\ running = {} /\ u.kind = "chat_member" /\ lookup # NoLookup
            /\ last.upd.kind = "approve" /\ last.upd.user = u.user
            /\ last.lookup \in {"Inactive", "Unknown"}
            /\ registry # <<>>
            /\ registry[Len(registry)] = ManualRow(UsernameOf(u.user))
         THEN "afterapprove"
    ELSE IF /\ running = {} /\ u.kind = "chat_member" /\ lookup # NoLookup
            /\ last.upd.user # u.user /\ Failed(last)
         THEN "afterfail"
         ELSE "no"

\* The application takes update u from the queue and runs its handler up
\* to the first awaited platform call (pc), or to its end (pc = "done").
Dispatch(u, pc, lookup, res) ==
    LET t == Task(taken + 1, u, pc, lookup, res, <<>>,
                  Redo(u, lookup, res), banned)
    IN  /\ CanDispatch
        /\ taken < MaxUpdates
        /\ taken' = taken + 1
        /\ IF pc \in Finished
           THEN running' = running /\ last' = t
           ELSE running' = running \cup {t} /\ last' = NoTask
        /\ UNCHANGED <<registry, supabase_client, banned, invites>>

\* The platform call awaited by t completes: its effect on the platform,
\* then the handler runs on to its next awaited call or to its end.
\* t2 is the coroutine after the synchronous code that follows the call.
Resume(t, t2, call) ==
    LET t3 == [t2 EXCEPT !.pc = NextPc(t.pc, call.ok),
                         !.calls = Append(t.calls, call)]
    IN  /\ banned' = BanEffect(banned, call)
        /\ invites' = InviteEffect(invites, call)
        /\ running' = (running \ {t}) \cup (IF t3.pc \in Finished THEN {} ELSE {t3})
        /\ last' = IF t3.pc \in Finished /\ t3.seq > last.seq THEN t3 ELSE last
        /\ UNCHANGED <<supabase_client, taken>>

\* ----------------------------------------------------------- handlers
handle_chat_member(u, raises) ==
    /\ u.kind = "chat_member"
    /\ IF ~IsManaged(u.chat) \/ ~IsJoining(u.old, u.new)
       THEN /\ ~raises
            /\ Dispatch(u, "done", NoLookup, NoSubscription)
       ELSE LET res == check_user_subscription(registry, supabase_client, raises,
                                               u.user.id, UsernameOf(u.user))
                how == LookupResult(registry, supabase_client, raises,
                                    UsernameOf(u.user))
            IN  Dispatch(u, JoinBranch(u.chat, res), how, res)

\* Variant: the approval is recorded without lifting the ban.
manual_approve_no_unban(u) ==
    /\ u.kind = "approve"
    /\ Dispatch(u, IF u.user = NoUser THEN "approve_usage" ELSE "approve_reply",
                NoLookup, NoSubscription)

manual_approve(u) ==
    /\ u.kind = "approve"
    /\ Dispatch(u, IF u.user = NoUser THEN "approve_usage" ELSE "approve_unban",
                NoLookup, NoSubscription)

\* Variant: the link is requested whatever the lookup returned.
generate_invite_always(u, raises) ==
    /\ u.kind = "invite"
    /\ IF u.arg = NoName
       THEN /\ ~raises
            /\ Dispatch(u, "invite_usage", NoLookup, NoSubscription)
       ELSE LET res == check_user_subscription(registry, supabase_client, raises,
                                               0, StripAt(u.arg))
                how == LookupResult(registry, supabase_client, raises,
                                    StripAt(u.arg))
            IN  Dispatch(u, "invite_unban", how, res)

generate_invite(u, raises) ==
    /\ u.kind = "invite"
    /\ IF u.arg = NoName
       THEN /\ ~raises
            /\ Dispatch(u, "invite_usage", NoLookup, NoSubscription)
       ELSE LET res == check_user_subscription(registry, supabase_client, raises,
                                               0, StripAt(u.arg))
                how == LookupResult(registry, supabase_client, raises,
                                    StripAt(u.arg))
            IN  Dispatch(u, IF res.has THEN "invite_unban" ELSE "invite_nosub",
                         how, res)

check_subscription(u, raises) ==
    /\ u.kind = "check"
    /\ LET res == check_user_subscription(registry, supabase_client, raises,
                                          u.user.id, UsernameOf(u.user))
           how == LookupResult(registry, supabase_client, raises,
                               UsernameOf(u.user))
       IN  Dispatch(u, "check_reply", how, res)

\* The queries of the loop over the two channels read the registry and
\* change nothing, whether they return rows or raise.
unban_user(u) ==
    /\ u.kind = "unban"
    /\ Dispatch(u, IF u.arg = NoName THEN "unban_usage" ELSE "unban_reply",
                NoLookup, NoSubscription)

test_command(u) ==
    /\ u.kind = "test"
    /\ Dispatch(u, "test_reply", NoLookup, NoSubscription)

\* ----------------------------------------------------- platform calls

\* unban_chat_member returns or raises.  In manual_approve the registry
\* code follows: the lookup (which may raise) and, without a subscription,
\* the insert (which may raise too).
unban_chat_member(t, ok, raises, insert_raises) ==
    /\ t \in running
    /\ t.pc \in UnbanPcs
    /\ IF t.pc = "approve_unban"
       THEN LET username == UsernameOf(t.upd.user)
                res == check_user_subscription(registry, supabase_client, raises,
                                               t.upd.user.id, username)
                how == LookupResult(registry, supabase_client, raises, username)
                inserts == ~res.has /\ ~insert_raises
            IN  /\ inserts => Len(registry) < MaxRows
                /\ res.has => ~insert_raises
                /\ registry' = IF inserts
                               THEN Append(registry, ManualRow(username))
                               ELSE registry
                /\ Resume(t, [t EXCEPT !.lookup = how, !.res = res],
                          Issued(t, ok))
       ELSE /\ ~raises /\ ~insert_raises
            /\ UNCHANGED registry
            /\ Resume(t, t, Issued(t, ok))

ban_chat_member(t, ok) ==
    /\ t \in running
    /\ t.pc \in BanPcs
    /\ UNCHANGED registry
    /\ Resume(t, t, Issued(t, ok))

send_message(t, ok) ==
    /\ t \in running
    /\ t.pc \in SendPcs
    /\ UNCHANGED registry
    /\ Resume(t, t, Issued(t, ok))

create_chat_invite_link(t, ok) ==
    /\ t \in running
    /\ t.pc \in CreatePcs
    /\ UNCHANGED registry
    /\ Resume(t, t, Issued(t, ok))

reply_text(t, ok) ==
    /\ t \in running
    /\ t.pc \in ReplyPcs
    /\ UNCHANGED registry
    /\ Resume(t, t, Issued(t, ok))

\* -------------------------------------------------------- environment
\* The payment back end records a row in the subscriptions table.  Without
\* a client the bot never reads the table, and its content is left out.
RegistryWrite(row) ==
    /\ supabase_client
    /\ Len(registry) < MaxRows
    /\ registry' = Append(registry, row)
    /\ UNCHANGED <<supabase_client, banned, invites, running, last, taken>>

\* ------------------------------------------------------ specification
Init ==
    /\ supabase_client \in BOOLEAN
    /\ registry \in IF supabase_client THEN SeqsUpTo(Rows, MaxRows) ELSE {<<>>}
    /\ banned = {}
    /\ invites = {}
    /\ running = {}
    /\ last = NoTask
    /\ taken = 0

Next ==
    \/ \E u \in ChatMemberUpdates, raises \in BOOLEAN : handle_chat_member(u, raises)
    \/ \E u \in ApproveUpdates : manual_approve(u)
    \/ \E u \in InviteUpdates, raises \in BOOLEAN : generate_invite(u, raises)
    \/ \E u \in CheckUpdates, raises \in BOOLEAN : check_subscription(u, raises)
    \/ \E u \in UnbanUpdates : unban_user(u)
    \/ \E u \in TestUpdates : test_command(u)
    \/ \E t \in running, ok \in BOOLEAN, raises \in BOOLEAN, insert_raises \in BOOLEAN :
          unban_chat_member(t, ok, raises, insert_raises)
    \/ \E t \in running, ok \in BOOLEAN : ban_chat_member(t, ok)
    \/ \E t \in running, ok \in BOOLEAN : send_message(t, ok)
    \/ \E t \in running, ok \in BOOLEAN : create_chat_invite_link(t, ok)
    \/ \E t \in running, ok \in BOOLEAN : reply_text(t, ok)
    \/ \E row \in Rows : RegistryWrite(row)

Spec == Init /\ [][Next]_vars

\* ------------------------------- specification of the membership handler
\* The membership handler alone, for one identity in the managed channels
\* and in another chat, over every transition between the seven statuses.
RowsOfTiers ==
    { Row(1, <<"a">>, 49, "completed", TRUE),
      Row(1, <<"a">>, 79, "completed", TRUE) }

AllChatMemberUpdates ==
    {Update("chat_member", c, u, o, n, NoName, FALSE) :
        c \in Chats,
        u \in {[id |-> 1, username |-> <<"a">>]},
        o \in Statuses, n \in Statuses}

InitChatMember ==
    /\ supabase_client \in BOOLEAN
    /\ registry \in IF supabase_client
                    THEN SeqsUpTo(RowsOfTiers, MaxRows) ELSE {<<>>}
    /\ banned = {}
    /\ invites = {}
    /\ running = {}
    /\ last = NoTask
    /\ taken = 0

NextChatMember ==
    \/ \E u \in AllChatMemberUpdates, raises \in BOOLEAN :
          handle_chat_member(u, raises)
    \/ \E t \in running, ok \in BOOLEAN :
          unban_chat_member(t, ok, FALSE, FALSE)
    \/ \E t \in running, ok \in BOOLEAN : ban_chat_member(t, ok)
    \/ \E t \in running, ok \in BOOLEAN : send_message(t, ok)

SpecChatMember == InitChatMember /\ [][NextChatMember]_vars

\* ----------------------------------------- specification of the tiers
\* The join of one identity in the managed channels, over a registry
\* holding every kind of amount and a deactivated record.
Amounts == {0, 49, 79, 299, 399, 999}

RowsOfAmounts ==
    {Row(1, <<"a">>, amount, "completed", TRUE) : amount \in Amounts}
        \cup {Row(1, <<"a">>, 49, "completed", FALSE)}

JoinUpdates ==
    {Update("chat_member", c, u, o, "member", NoName, FALSE) :
        c \in {CHANNEL_49_299, CHANNEL_79_399},
        u \in {[id |-> 1, username |-> <<"a">>]},
        o \in {"left", "kicked"}}

InitTiers ==
    /\ supabase_client \in BOOLEAN
    /\ registry \in IF supabase_client
                    THEN SeqsUpTo(RowsOfAmounts, MaxRows) ELSE {<<>>}
    /\ banned = {}
    /\ invites = {}
    /\ running = {}
    /\ last = NoTask
    /\ taken = 0

NextTiers ==
    \/ \E u \in JoinUpdates, raises \in BOOLEAN : handle_chat_member(u, raises)
    \/ \E t \in running, ok \in BOOLEAN :
          unban_chat_member(t, ok, FALSE, FALSE)
    \/ \E t \in running, ok \in BOOLEAN : ban_chat_member(t, ok)
    \/ \E t \in running, ok \in BOOLEAN : send_message(t, ok)

SpecTiers == InitTiers /\ [][NextTiers]_vars

\* ------------------------------------------------------------- claims
\* The handlers in flight or just finished.
Tasks == running \cup (IF last = NoTask THEN {} ELSE {last})

\* The handlers of a not-present -> present event in a managed channel.
JoinTasks ==
    {t \in Tasks :
        /\ t.upd.kind = "chat_member"
        /\ t.upd.chat \in {CHANNEL_49_299, CHANNEL_79_399}
        /\ t.upd.old \in NotPresentStatuses
        /\ t.upd.new \in PresentStatuses}

CallsOf(t) == {t.calls[i] : i \in DOMAIN t.calls}

\* c is the call op(chat, user).
IsCall(c, op, chat, user) == c.op = op /\ c.chat = chat /\ c.user = user

IsBanOf(c, t) == IsCall(c, "ban_chat_member", t.upd.chat, t.upd.user.id)
IsUnbanOf(c, t) == IsCall(c, "unban_chat_member", t.upd.chat, t.upd.user.id)
IsWelcomeOf(c, t) ==
    IsCall(c, "send_message", t.upd.chat, 0) /\ c.text = "welcome"
IsNoticeOf(c, t) == IsCall(c, "send_message", PrivateChat, t.upd.user.id)

\* The channel designated by the tier of a lookup that found a valid amount.
DesignatedChannel(t) == PAYMENT_CHANNELS[t.res.amount]

\* The name by which a notice refers to a managed channel.
ChannelLabel(channel) ==
    CASE channel = CHANNEL_49_299 -> "49/299 channel"
      [] channel = CHANNEL_79_399 -> "79/399 channel"

\* C1: a join event in a managed channel whose lookup finds no qualifying
\* record (Inactive) or a first record with an amount outside the table
\* (Unknown) is decided DenyEvict: the first call is the ban of that
\* identity in the event's channel, every ban is that ban, and neither an
\* unban nor a welcome message is issued.
C1_DenyEvict ==
    \A t \in JoinTasks :
        t.lookup \in {"Inactive", "Unknown"} =>
            /\ \A c \in CallsOf(t) :
                  /\ c.op # "unban_chat_member"
                  /\ c.text # "welcome"
                  /\ c.op = "ban_chat_member" => IsBanOf(c, t)
            /\ t.calls = <<>> => t.pc = "deny_ban"
            /\ t.calls # <<>> => IsBanOf(t.calls[1], t)

C1_Witness ==
    /\ last \in JoinTasks
    /\ last.pc = "done"
    /\ last.lookup = "Unknown"
    /\ IsBanOf(last.calls[1], last)
    /\ last.calls[1].ok
    /\ <<last.upd.chat, last.upd.user.id>> \in banned

\* C2: a join event in a managed channel whose lookup resolves to the tier
\* of that very channel is decided Admit: no ban is issued, and the calls
\* made are the unban-if-banned and then the welcome message, both in the
\* event's channel.
C2_Admit ==
    \A t \in JoinTasks :
        (t.lookup = "Active" /\ DesignatedChannel(t) = t.upd.chat) =>
            /\ \A c \in CallsOf(t) : IsUnbanOf(c, t) \/ IsWelcomeOf(c, t)
            /\ t.calls = <<>> => t.pc = "admit_unban"
            /\ t.pc = "done" =>
                  /\ Len(t.calls) = 2
                  /\ IsUnbanOf(t.calls[1], t)
                  /\ IsWelcomeOf(t.calls[2], t)

C2_Witness ==
    /\ last \in JoinTasks
    /\ last.pc = "done"
    /\ last.lookup = "Active"
    /\ DesignatedChannel(last) = last.upd.chat
    /\ Len(last.calls) = 2
    /\ last.calls[1].ok /\ last.calls[2].ok

\* C3: a join event in a managed channel whose lookup resolves to the tier
\* of the other channel is decided RedirectEvict: the identity is banned
\* in the event's channel and in no other, nothing is unbanned, and the
\* notice sent to the identity names the channel of its tier.
C3_RedirectEvict ==
    \A t \in JoinTasks :
        (t.lookup = "Active" /\ DesignatedChannel(t) # t.upd.chat) =>
            /\ \A c \in CallsOf(t) :
                  \/ IsBanOf(c, t)
                  \/ /\ IsNoticeOf(c, t)
                     /\ c.text = "wrong_channel"
                     /\ c.detail = ChannelLabel(DesignatedChannel(t))
            /\ t.calls = <<>> => t.pc = "redirect_ban"
            /\ t.calls # <<>> => IsBanOf(t.calls[1], t)
            /\ (t.pc = "done" /\ t.calls[1].ok) =>
                  Len(t.calls) = 2 /\ IsNoticeOf(t.calls[2], t)

C3_Witness ==
    /\ last \in JoinTasks
    /\ last.pc = "done"
    /\ last.lookup = "Active"
    /\ last.upd.chat = CHANNEL_49_299
    /\ DesignatedChannel(last) = CHANNEL_79_399
    /\ Len(last.calls) = 2
    /\ last.calls[2].ok
    /\ last.calls[2].detail = "79/399 channel"
    /\ banned = {<<CHANNEL_49_299, last.upd.user.id>>}

\* C4: while the registry is unavailable a join event in any managed
\* channel is admitted (no ban is issued) where the lookup fails open,
\* which it does without a client ("allowing user access"), and is decided
\* DenyEvict where it fails closed, which it does when the query raises.
C4_UnavailablePolicy ==
    \A t \in JoinTasks :
        t.lookup = "Unavailable" =>
            IF ~supabase_client
            THEN /\ \A c \in CallsOf(t) : IsUnbanOf(c, t) \/ IsWelcomeOf(c, t)
                 /\ t.calls = <<>> => t.pc = "admit_unban"
            ELSE /\ \A c \in CallsOf(t) : IsBanOf(c, t) \/ IsNoticeOf(c, t)
                 /\ t.calls = <<>> => t.pc = "deny_ban"

\* The finished handler of a chat_member update.
LastEvent == last.upd.kind = "chat_member" /\ last.pc = "done"

C6_OneAtATime ==
    /\ Cardinality(running) <= 1
    /\ \A t \in running : t.seq = taken
    /\ (running = {} /\ last # NoTask) => last.seq = taken
    /\ (running = {} /\ LastEvent /\ last.calls # <<>> /\ last.calls[1].ok) =>
              /\ IsBanOf(last.calls[1], last) =>
                    <<last.upd.chat, last.upd.user.id>> \in banned
              /\ IsUnbanOf(last.calls[1], last) =>
                    <<last.upd.chat, last.upd.user.id>> \notin banned

C6_Witness ==
    /\ running = {}
    /\ LastEvent
    /\ last.seq = 2
    /\ last.redo \in {"same", "sameok"}
    /\ Len(last.calls) = 2
    /\ last.calls[1].ok

\* C7: in RedirectEvict and DenyEvict the ban comes before the notice to
\* the identity, the notice is attempted once the ban has succeeded, and
\* whenever the ban call succeeded the identity is banned in the event's
\* channel whatever became of the notice.
C7_BanBeforeNotice ==
    \A t \in JoinTasks :
        /\ \A i \in DOMAIN t.calls :
              IsNoticeOf(t.calls[i], t) =>
                  i = 2 /\ IsBanOf(t.calls[1], t) /\ t.calls[1].ok
        /\ (t.calls # <<>> /\ IsBanOf(t.calls[1], t) /\ t.calls[1].ok) =>
              /\ <<t.upd.chat, t.upd.user.id>> \in banned
              /\ Len(t.calls) = 1 => t.pc \in {"redirect_notify", "deny_notify"}
              /\ t.pc = "done" => Len(t.calls) = 2 /\ IsNoticeOf(t.calls[2], t)

C7_Witness ==
    /\ last \in JoinTasks
    /\ last.pc = "done"
    /\ Len(last.calls) = 2
    /\ IsBanOf(last.calls[1], last) /\ last.calls[1].ok
    /\ IsNoticeOf(last.calls[2], last) /\ ~last.calls[2].ok
    /\ <<last.upd.chat, last.upd.user.id>> \in banned

\* C8: in Admit the unban-if-banned is the first call, the welcome is
\* attempted after it whether it returned or raised, no ban is issued,
\* and after an unban that returned the identity is not banned in the
\* event's channel whatever became of the welcome.
C8_UnbanBeforeWelcome ==
    \A t \in JoinTasks :
        (t.res.has /\ t.res.channel = t.upd.chat) =>
            /\ \A c \in CallsOf(t) : c.op # "ban_chat_member"
            /\ t.calls = <<>> => t.pc = "admit_unban"
            /\ Len(t.calls) = 1 =>
                  IsUnbanOf(t.calls[1], t) /\ t.pc = "admit_welcome"
            /\ Len(t.calls) >= 2 =>
                  /\ IsUnbanOf(t.calls[1], t)
                  /\ IsWelcomeOf(t.calls[2], t)
                  /\ Len(t.calls) = 2 /\ t.pc = "done"
            /\ (t.calls # <<>> /\ t.calls[1].ok) =>
                  <<t.upd.chat, t.upd.user.id>> \notin banned

C8_Witness ==
    /\ last \in JoinTasks
    /\ last.pc = "done"
    /\ last.lookup = "Active"
    /\ Len(last.calls) = 2
    /\ IsUnbanOf(last.calls[1], last) /\ ~last.calls[1].ok
    /\ IsWelcomeOf(last.calls[2], last) /\ ~last.calls[2].ok

\* Handles are compared without regard to case.
SameHandle(a, b) ==
    Len(a) = Len(b) /\ \A i \in DOMAIN a : Lower(a[i]) = Lower(b[i])

\* C9: with the registry reachable, a join event in a managed channel is
\* decided Admit only if the registry holds a completed, active record
\* that belongs to the joining identity, by its numeric identity or by
\* its handle.
C9_OnlyOwnRecordAdmits ==
    \A t \in JoinTasks :
        (t.lookup # "Unavailable" /\ t.pc = "admit_unban") =>
            \E i \in DOMAIN registry :
                /\ registry[i].payment_status = "completed"
                /\ registry[i].is_active
                /\ \/ registry[i].telegram_id = t.upd.user.id
                   \/ SameHandle(registry[i].telegram_username,
                                 UsernameOf(t.upd.user))

\* C10: an override command (approve, invite, unban) of a caller who is
\* neither administrator nor owner of a managed channel makes no platform
\* call other than replies to the caller.
C10_OnlyAdminsOverride ==
    \A t \in Tasks :
        (t.upd.kind \in {"approve", "invite", "unban"} /\ ~t.upd.admin) =>
            \A c \in CallsOf(t) : c.op = "reply_text"

\* C11: a membership event of a chat that is not a managed channel is a
\* NoOp whatever its transition and whatever the registry holds: its
\* handler returns at once without a registry lookup, issues no ban, unban
\* or message, and leaves the ban state as it found it.
C11_ChannelIsolation ==
    \A t \in Tasks :
        (t.upd.kind = "chat_member"
         /\ t.upd.chat \notin {CHANNEL_49_299, CHANNEL_79_399}) =>
            /\ t.lookup = NoLookup
            /\ t.calls = <<>>
            /\ t.pc = "done"
            /\ t = last /\ banned = t.banned0

C11_Witness ==
    /\ last.upd.kind = "chat_member"
    /\ last.upd.chat = OtherChat
    /\ IsJoining(last.upd.old, last.upd.new)
    /\ LookupResult(registry, supabase_client, FALSE,
                    UsernameOf(last.upd.user)) = "Inactive"
    /\ last.pc = "done"
    /\ last.calls = <<>>
    /\ banned = {}

\* C12: in a managed channel only a transition from a not-present status
\* (left, kicked, restricted, banned) to a present status (member,
\* administrator, creator) is evaluated; the handler of any other
\* transition returns at once without a lookup, a ban, an unban or a
\* message, and leaves the ban state as it found it.
C12_TransitionFiltering ==
    \A t \in Tasks :
        (t.upd.kind = "chat_member"
         /\ t.upd.chat \in {CHANNEL_49_299, CHANNEL_79_399}) =>
            IF t.upd.old \in NotPresentStatuses /\ t.upd.new \in PresentStatuses
            THEN /\ t.lookup # NoLookup
                 /\ t.calls = <<>> => t.pc \in ChatMemberPcs \ {"done"}
            ELSE /\ t.lookup = NoLookup
                 /\ t.calls = <<>>
                 /\ t.pc = "done"
                 /\ t = last /\ banned = t.banned0

\* A present -> not-present transition of an identity without a record
\* has been ignored after a restricted -> administrator transition of it
\* was evaluated and banned it.
C12_Witness ==
    /\ last.upd.kind = "chat_member"
    /\ last.upd.chat = CHANNEL_79_399
    /\ last.upd.old = "creator"
    /\ last.upd.new = "kicked"
    /\ last.seq = 2
    /\ last.lookup = NoLookup
    /\ last.calls = <<>>
    /\ banned = {<<CHANNEL_79_399, last.upd.user.id>>}

\* The registry reg holds a completed, active record of the numeric
\* identity user_id whose amount is in the table.
HasRecordOfId(reg, user_id) ==
    \E i \in DOMAIN reg :
        /\ reg[i].telegram_id = user_id
        /\ reg[i].payment_status = "completed"
        /\ reg[i].is_active
        /\ ToString(reg[i].amount_paid) \in DOMAIN PAYMENT_CHANNELS

\* C13: whenever the registry is reachable and holds a completed, active
\* record of the joining identity's numeric id, the lookup made for a join
\* event returns Active, whatever handle the event carries.
C13_LookupByIdentity ==
    [][\A t \in running' \ running :
          (/\ t.upd.kind = "chat_member"
           /\ t.lookup \notin {NoLookup, "Unavailable"}
           /\ HasRecordOfId(registry, t.upd.user.id)) =>
              t.lookup = "Active"]_vars

\* C14: whatever the lookup returns, /approve in reply to a message of an
\* identity first issues unban-if-banned for that identity in the chat of
\* the command and never issues a ban; after an unban that returned, the
\* identity is not banned in that chat.
C14_ForceApprove ==
    \A t \in Tasks :
        (t.upd.kind = "approve" /\ t.upd.user # NoUser) =>
            /\ \A c \in CallsOf(t) : c.op # "ban_chat_member"
            /\ t.calls = <<>> => t.pc = "approve_unban"
            /\ t.calls # <<>> =>
                  /\ IsUnbanOf(t.calls[1], t)
                  /\ t.lookup \in {"Active", "Inactive", "Unknown", "Unavailable"}
                  /\ t.calls[1].ok =>
                        <<t.upd.chat, t.upd.user.id>> \notin banned

\* An identity banned by a denied join has been approved, with a lookup
\* that found no record of it.
C14_Witness ==
    /\ last.upd.kind = "approve"
    /\ last.pc = "done"
    /\ last.lookup = "Inactive"
    /\ <<last.upd.chat, last.upd.user.id>> \in last.banned0
    /\ IsUnbanOf(last.calls[1], last)
    /\ last.calls[1].ok
    /\ banned = {}

UnbanTasks == {t \in Tasks : t.upd.kind = "unban" /\ t.upd.arg # NoName}

\* /unban with a handle issues no ban and no unban and leaves the ban
\* state as it found it.
UnbanChangesNoBanState ==
    \A t \in UnbanTasks :
        /\ \A c \in CallsOf(t) : c.op = "reply_text"
        /\ banned = t.banned0

\* C16: /unban with a handle changes no ban state in any managed channel
\* (it issues no unban), and what it reports to the operator is an
\* advisory no-op: no reply of it says that an unban was attempted and
\* that the user should now be able to join.
C16_ForceUnbanAdvisory ==
    /\ UnbanChangesNoBanState
    /\ \A t \in UnbanTasks :
          \A c \in CallsOf(t) :
              ~(c.text = "unban_attempted"
                /\ c.detail = "The user should now be able to join")

\* What a join handler decided, read from the call it makes first.
DecisionOf(t) ==
    LET first == IF t.calls = <<>> THEN t.pc
                 ELSE IF IsUnbanOf(t.calls[1], t) THEN "admit_unban"
                 ELSE IF IsBanOf(t.calls[1], t) THEN "ban"
                 ELSE "other"
    IN  CASE first = "admit_unban" -> "Admit"
          [] first \in {"redirect_ban", "deny_ban", "ban"} -> "Evict"
          [] OTHER -> "other"

\* C17: a failure while one event is handled does not stop the handling
\* of others.  The membership handler always returns (it makes at most
\* two calls and no exception leaves it), once a handler in which a call
\* failed has finished the handler of any next membership update can start,
\* and a join event is decided from its own channel and lookup result
\* alone, also when the handler of another identity failed just before.
C17_FailureIsolation ==
    /\ \A t \in Tasks :
          t.upd.kind = "chat_member" =>
              /\ t.pc # "raised"
              /\ Len(t.calls) <= 2
              /\ Len(t.calls) = 2 => t.pc = "done"
    /\ (running = {} /\ taken < MaxUpdates /\ Failed(last)) =>
          \A u \in ChatMemberUpdates : ENABLED handle_chat_member(u, FALSE)
    /\ \A t \in JoinTasks :
          DecisionOf(t) =
              IF t.res.has /\ t.res.channel = t.upd.chat THEN "Admit" ELSE "Evict"

\* After a handler in which a call raised, the join of another identity
\* holding a record for this channel has been admitted.
C17_Witness ==
    /\ last \in JoinTasks
    /\ last.pc = "done"
    /\ last.redo = "afterfail"
    /\ last.lookup = "Active"
    /\ DecisionOf(last) = "Admit"
    /\ last.calls[1].ok

\* C18: when the first record the query returns holds an amount of the
\* table, the lookup returns the configured channel of that amount
\* (CHANNEL_49_299 for 49 and 299, CHANNEL_79_399 for 79 and 399); when
\* it holds any other amount the lookup returns Unknown, which is no
\* valid subscription: the join is evicted with the denial notice, as
\* without a record, and no exception leaves the handler.
C18_TierCorrectness ==
    \A t \in JoinTasks :
        LET data == QueryData(registry, UsernameOf(t.upd.user))
        IN  (t.lookup # "Unavailable" /\ data # <<>>) =>
                LET amount_paid == data[1].amount_paid
                IN  /\ amount_paid \in {49, 299} =>
                          /\ t.lookup = "Active"
                          /\ t.res = [has |-> TRUE,
                                      amount |-> ToString(amount_paid),
                                      channel |-> CHANNEL_49_299]
                    /\ amount_paid \in {79, 399} =>
                          /\ t.lookup = "Active"
                          /\ t.res = [has |-> TRUE,
                                      amount |-> ToString(amount_paid),
                                      channel |-> CHANNEL_79_399]
                    /\ amount_paid \notin {49, 299, 79, 399} =>
                          /\ t.lookup = "Unknown"
                          /\ ~t.res.has /\ t.res.channel = None
                          /\ t.pc # "raised"
                          /\ t.calls = <<>> => t.pc = "deny_ban"
                          /\ \A c \in CallsOf(t) :
                                \/ IsBanOf(c, t)
                                \/ IsNoticeOf(c, t) /\ c.text = "access_denied"

\* A record of amount 0 has been resolved to Unknown, and the join evicted
\* and told that it has no valid subscription.
C18_Witness ==
    /\ last \in JoinTasks
    /\ last.pc = "done"
    /\ registry # <<>>
    /\ registry[1].amount_paid = 0
    /\ last.lookup = "Unknown"
    /\ last.res.amount = "0"
    /\ Len(last.calls) = 2
    /\ IsBanOf(last.calls[1], last) /\ last.calls[1].ok
    /\ IsNoticeOf(last.calls[2], last) /\ last.calls[2].ok

\* C19: the handler of one membership event issues at most one ban or
\* unban call: never both, never two bans; a ban it issues is for the
\* identity of the event in the channel of the event, and the ban state
\* changes for that identity in that channel at most.
C19_OneIrrevocableCommand ==
    \A t \in Tasks :
        t.upd.kind = "chat_member" =>
            /\ Cardinality({i \in DOMAIN t.calls :
                    t.calls[i].op \in {"ban_chat_member", "unban_chat_member"}}) <= 1
            /\ \A c \in CallsOf(t) :
                  /\ c.op = "ban_chat_member" => IsBanOf(c, t)
                  /\ c.op = "unban_chat_member" => IsUnbanOf(c, t)
            /\ \A b \in (banned \ t.banned0) \cup (t.banned0 \ banned) :
                  b = <<t.upd.chat, t.upd.user.id>>

\* A second identity has been banned from a channel by one ban call,
\* the ban of the first identity standing.
C19_Witness ==
    /\ last \in JoinTasks
    /\ last.pc = "done"
    /\ last.seq = 2
    /\ Cardinality(last.banned0) = 1
    /\ Cardinality(banned) = 2
    /\ \A b \in banned : b[1] = last.upd.chat
    /\ Len(last.calls) = 2
    /\ IsBanOf(last.calls[1], last)

\* C20: /approve does not change what the gate decides.  When the lookup
\* of /approve found no valid subscription for the identity, the row it
\* inserts carries the amount 0, which is no key of the table, and with
\* nothing else written to the table since, the next join event of that
\* identity in a managed channel again finds no valid subscription and is
\* decided DenyEvict: the identity is banned in the channel of the event
\* and sent the denial notice.
C20_ApproveKeepsGate ==
    \A t \in JoinTasks :
        t.redo = "afterapprove" =>
            /\ ~t.res.has
            /\ t.lookup \in {"Inactive", "Unknown", "Unavailable"}
            /\ t.calls = <<>> => t.pc = "deny_ban"
            /\ \A c \in CallsOf(t) :
                  \/ IsBanOf(c, t)
                  \/ IsNoticeOf(c, t) /\ c.text = "access_denied"
            /\ t.calls # <<>> =>
                  /\ IsBanOf(t.calls[1], t)
                  /\ t.calls[1].ok => <<t.upd.chat, t.upd.user.id>> \in banned

\* The identity that /approve recorded with amount 0 has joined the
\* channel it was approved in, its lookup has returned that record, and it
\* has been banned.
C20_Witness ==
    /\ last \in JoinTasks
    /\ last.pc = "done"
    /\ last.redo = "afterapprove"
    /\ registry = <<ManualRow(UsernameOf(last.upd.user))>>
    /\ last.lookup = "Unknown"
    /\ last.res.amount = "0"
    /\ last.upd.chat = CHANNEL_49_299
    /\ last.calls # <<>>
    /\ last.calls[1].ok
    /\ banned = {<<CHANNEL_49_299, last.upd.user.id>>}

====
